---- MODULE Spec2Model ----
(***************************************************************************)
(* A model of the task-management REST API: the express routers            *)
(* (routes/authRoutes.ts, routes/taskRoutes.ts), the express-validator     *)
(* chains (middleware/validation.ts), the auth controller                  *)
(* (controllers/authController.ts), the task controller                    *)
(* (controllers/taskController.ts) over the mongoose Task model            *)
(* (models/Task.ts), and the in-memory prototype of app.ts.                *)
(*                                                                         *)
(* Strings are sequences of one-character strings.  A request is handled   *)
(* as a chain of middleware; every await on the database is one atomic     *)
(* step, so requests in flight interleave exactly at those points.         *)
(***************************************************************************)
EXTENDS Integers, Sequences, FiniteSets, TLC

VARIABLES
    users,      \* the User collection: a set of user documents
    tasks,      \* the Task collection: a set of task documents
    now,        \* the wall clock read by new Date()
    jwtSecret,  \* whether process.env.JWT_SECRET is configured
    issued,     \* ids of the users a signed, unexpired token exists for
    nextId,     \* the next fresh ObjectId
    reqs,       \* the requests in flight, one slot per connection
    resp,       \* the response sent last, until the next request arrives
    flips,      \* history: per task id, whether an odd number of toggles succeeded
    vreq,       \* validation study: the request handed to the chain
    vres,       \* validation study: what the chain did with it
    memTasks,       \* app.ts prototype: the tasks array
    taskIdCounter,  \* app.ts prototype: the id counter
    freed           \* history: the ids of the tasks the prototype deleted

vars == <<users, tasks, now, jwtSecret, issued, nextId, reqs, resp, flips, vreq, vres,
         memTasks, taskIdCounter, freed>>

-----------------------------------------------------------------------------
(* Bounds of the model.                                                    *)

MaxReq == 2
MaxUsers == 2
MaxTasks == 2
MaxTime == 1
MaxNameLen == 3
MaxPwdLen == 6
MaxTotal == 15
MaxPage == 3
MaxLimit == 10
MaxIdCounter == 11
MaxMemTasks == 2

-----------------------------------------------------------------------------
(* Strings.                                                                *)

Lower == {"a", "b"}
Upper == {"A", "B"}
Digit == {"1"}
Space == " "

\* The value of a field the request does not carry (JavaScript undefined).
Undef == <<"undefined">>

RECURSIVE TrimLeft(_)
TrimLeft(s) ==
    IF s = <<>> THEN <<>>
    ELSE IF Head(s) = Space THEN TrimLeft(Tail(s)) ELSE s

RECURSIVE TrimRight(_)
TrimRight(s) ==
    IF s = <<>> THEN <<>>
    ELSE IF s[Len(s)] = Space THEN TrimRight(SubSeq(s, 1, Len(s) - 1)) ELSE s

\* express-validator's trim() sanitizer.
Trim(s) == TrimRight(TrimLeft(s))

ToLowerChar(c) == IF c = "A" THEN "a" ELSE IF c = "B" THEN "b" ELSE c

ToLower(s) == [i \in 1..Len(s) |-> ToLowerChar(s[i])]

\* express-validator turns a missing field into the empty string before a
\* validator or sanitizer sees it.
ToStr(v) == IF v = Undef THEN <<>> ELSE v

Count(s, c) == Cardinality({i \in 1..Len(s) : s[i] = c})

IsAlnum(c) == c \in Lower \cup Upper \cup Digit

\* isEmail(), on the reduced grammar local@domain of letters and digits.
IsEmail(s) ==
    /\ Count(s, "@") = 1
    /\ s[1] # "@"
    /\ s[Len(s)] # "@"
    /\ \A i \in 1..Len(s) : s[i] = "@" \/ IsAlnum(s[i])

\* normalizeEmail() with its default all_lowercase: an address that does not
\* parse is replaced by false, written here as the empty string.
NormalizeEmail(s) == IF IsEmail(s) THEN ToLower(s) ELSE <<>>

-----------------------------------------------------------------------------
(* middleware/validation.ts: the express-validator chains.  A chain is     *)
(* evaluated to the list of its failures, in the order the rules are       *)
(* declared, and to the request body as its sanitizers leave it.  No chain *)
(* calls bail(), so every validator of a field runs.                       *)

NameMin == 2
NameMax == 50
PasswordMin == 6
TitleMin == 1
TitleMax == 100
DescriptionMax == 500
SearchMax == 100
LimitMax == 100

\* The word that stands for a missing enumerated or boolean-like field.
NoWord == "undefined"

Priorities == {"low", "medium", "high"}

\* A due date as the request carries it: missing, a string that is no
\* ISO-8601 date, or an ISO-8601 date denoting the instant t.
NoDate == [kind |-> "undef", t |-> 0]
BadDate == [kind |-> "bad", t |-> 0]
DateAt(t) == [kind |-> "date", t |-> t]

Err(path, msg) == <<[path |-> path, msg |-> msg]>>

When(failed, errs) == IF failed THEN errs ELSE <<>>

\* A line terminator, which the . of a JavaScript regular expression
\* without the s flag does not match.
LineBreak == "\n"

\* The part of s that .* can span from its start.
FirstLine(s) ==
    LET brk == {i \in 1..Len(s) : s[i] = LineBreak} IN
    IF brk = {} THEN s
    ELSE SubSeq(s, 1, (CHOOSE i \in brk : \A j \in brk : i <= j) - 1)

\* matches(/^(?=.*[a-z])(?=.*[A-Z])(?=.*\d)/): each lookahead is anchored at
\* the start and reaches as far as .* does.
MatchesPasswordClasses(s) ==
    LET line == FirstLine(s) IN
    /\ \E i \in 1..Len(line) : line[i] \in Lower
    /\ \E i \in 1..Len(line) : line[i] \in Upper
    /\ \E i \in 1..Len(line) : line[i] \in Digit

\* A rule that lets through a due date equal to the clock.
DueDateNotFutureV(d, clock) == d.kind = "date" /\ d.t < clock

\* The custom dueDate rule: new Date(value) <= new Date() throws.  A string
\* that is no date parses to an invalid Date, which compares false.
DueDateNotFuture(d, clock) == d.kind = "date" /\ d.t <= clock

DueDateErrors(d, clock) ==
    IF d.kind = "undef" THEN <<>>
    ELSE When(d.kind = "bad", Err("dueDate", "Due date must be a valid date"))
         \o When(DueDateNotFuture(d, clock),
                 Err("dueDate", "Due date must be in the future"))

PriorityErrors(p) ==
    When(p # NoWord /\ p \notin Priorities,
         Err("priority", "Priority must be low, medium, or high"))

DescriptionErrors(d) ==
    When(d # Undef /\ Len(Trim(d)) > DescriptionMax,
         Err("description", "Description must not exceed 500 characters"))

TrimOpt(v) == IF v = Undef THEN Undef ELSE Trim(v)

registerValidation(body) ==
    [errors |->
        When(~(Len(Trim(ToStr(body.name))) \in NameMin..NameMax),
             Err("name", "Name must be between 2 and 50 characters"))
        \o When(~IsEmail(ToStr(body.email)),
                Err("email", "Please provide a valid email"))
        \o When(Len(ToStr(body.password)) < PasswordMin,
                Err("password", "Password must be at least 6 characters long"))
        \o When(~MatchesPasswordClasses(ToStr(body.password)),
                Err("password", "Password must contain at least one uppercase letter, one lowercase letter, and one number")),
     body |-> [body EXCEPT !.name = Trim(ToStr(body.name)),
                           !.email = NormalizeEmail(ToStr(body.email))]]

createTaskValidation(body, clock) ==
    [errors |->
        When(~(Len(Trim(ToStr(body.title))) \in TitleMin..TitleMax),
             Err("title", "Title is required and must not exceed 100 characters"))
        \o DescriptionErrors(body.description)
        \o PriorityErrors(body.priority)
        \o DueDateErrors(body.dueDate, clock),
     body |-> [body EXCEPT !.title = Trim(ToStr(body.title)),
                           !.description = TrimOpt(body.description)]]

updateTaskValidation(body, clock) ==
    [errors |->
        When(body.title # Undef /\ ~(Len(Trim(body.title)) \in TitleMin..TitleMax),
             Err("title", "Title must not exceed 100 characters"))
        \o DescriptionErrors(body.description)
        \o When(body.completed \notin {NoWord, "true", "false", "1", "0"},
                Err("completed", "Completed must be a boolean value"))
        \o PriorityErrors(body.priority)
        \o DueDateErrors(body.dueDate, clock),
     body |-> [body EXCEPT !.title = TrimOpt(body.title),
                           !.description = TrimOpt(body.description)]]

\* isValidObjectId: the id 0 stands for every string that is no ObjectId.
isValidObjectId(id) == id # 0

taskIdValidation(id) ==
    When(~isValidObjectId(id), Err("id", "Invalid task ID"))

\* A page or limit parameter is an integer, or NoInt when it is missing; the
\* integer -1 stands for every string isInt() refuses.
NoInt == 0 - 2
BadInt == 0 - 1

taskQueryValidation(q) ==
    [errors |->
        When(q.completed \notin {NoWord, "true", "false", "1", "0"},
             Err("completed", "Completed must be true or false"))
        \o PriorityErrors(q.priority)
        \o When(q.search # Undef /\ ~(Len(Trim(q.search)) \in 1..SearchMax),
                Err("search", "Search term must be between 1 and 100 characters"))
        \o When(q.page # NoInt /\ q.page < 1,
                Err("page", "Page must be a positive integer"))
        \o When(q.limit # NoInt /\ ~(q.limit \in 1..LimitMax),
                Err("limit", "Limit must be between 1 and 100")),
     body |-> [q EXCEPT !.search = TrimOpt(q.search)]]

\* A handler that reports the first failure only.
handleValidationErrorsFirst(errors) ==
    IF errors # <<>>
    THEN [next |-> FALSE, status |-> 400, message |-> "Validation failed",
          errors |-> <<Head(errors)>>]
    ELSE [next |-> TRUE, status |-> 0, message |-> "", errors |-> <<>>]

\* handleValidationErrors: 400 with the list when it is not empty, next()
\* otherwise.
handleValidationErrors(errors) ==
    IF errors # <<>>
    THEN [next |-> FALSE, status |-> 400, message |-> "Validation failed",
          errors |-> errors]
    ELSE [next |-> TRUE, status |-> 0, message |-> "", errors |-> <<>>]

-----------------------------------------------------------------------------
(* The documents and the queries of the two collections.                   *)

UserIds == 1..MaxUsers

\* ObjectIds are never reused: one more task id than the collection holds,
\* so that a create after a delete is part of the model.
TaskIds == 1..(MaxTasks + 1)

\* bcrypt, as the User model's pre-save hook applies it.
Hash(pw) == <<"$2a$">> \o pw

comparePassword(candidate, hashed) == Hash(candidate) = hashed

UserDoc(id, email, password) ==
    [id |-> id, email |-> email, password |-> Hash(password), isActive |-> TRUE]

\* A collection without the index.
EmailIndexAllowsFree(coll, id, email) == TRUE

\* The unique index on User.email: an insert or an update that would give
\* two documents one email fails with a duplicate-key error.
EmailIndexAllows(coll, id, email) ==
    \A u \in coll : u.email = email => u.id = id

\* taskSchema.dueDate validate: !value || value > new Date()
DueDateValidator(d, clock) == d.kind = "undef" \/ d.t > clock

\* Task.create: the schema's defaults, then its validators.
NewTask(id, fields) ==
    [id |-> id,
     user |-> fields.user,
     title |-> Trim(fields.title),
     description |-> IF fields.description = Undef THEN <<>>
                     ELSE Trim(fields.description),
     priority |-> IF fields.priority = NoWord THEN "medium" ELSE fields.priority,
     dueDate |-> fields.dueDate,
     completed |-> FALSE]

TaskValid(t, clock) ==
    /\ Len(t.title) \in 1..TitleMax
    /\ Len(t.description) <= DescriptionMax
    /\ t.priority \in Priorities
    /\ t.dueDate.kind # "bad"
    /\ DueDateValidator(t.dueDate, clock)

\* The $set of an update: mongoose drops the keys whose value is undefined.
ApplyUpdate(t, upd) ==
    [t EXCEPT
        !.title = IF upd.title = Undef THEN @ ELSE Trim(upd.title),
        !.description = IF upd.description = Undef THEN @ ELSE Trim(upd.description),
        !.priority = IF upd.priority = NoWord THEN @ ELSE upd.priority,
        !.dueDate = IF upd.dueDate.kind = "undef" THEN @ ELSE upd.dueDate]

\* runValidators: the validators of the paths the update sets.
UpdateValid(upd, clock) ==
    /\ upd.title = Undef \/ Len(Trim(upd.title)) \in 1..TitleMax
    /\ upd.description = Undef \/ Len(Trim(upd.description)) <= DescriptionMax
    /\ upd.priority = NoWord \/ upd.priority \in Priorities
    /\ upd.dueDate.kind # "bad"
    /\ DueDateValidator(upd.dueDate, clock)

\* Task.findOne({_id, user}) and the filter of findOneAndUpdate.
FindOwned(coll, id, user) == {t \in coll : t.id = id /\ t.user = user}

\* Task.findByIdAndDelete(id) is findOneAndDelete({_id: id}); the id handed
\* to it is the object {_id, user}, which the ObjectId cast reduces to its
\* _id.  The user key never reaches the filter.
FindByIdArg(coll, arg) == {t \in coll : t.id = arg.id}

\* $regex with $options "i": the field contains the term, case ignored.
Contains(s, term) ==
    \E k \in 0..(Len(s) - Len(term)) :
        \A j \in 1..Len(term) : ToLowerChar(s[k + j]) = ToLowerChar(term[j])

\* A filter that leaves the owner out.
FilterNoUser(q, user) == [q EXCEPT !.user = 0]

\* The filter getTasks builds from the query.
Filter(q, user) == [q EXCEPT !.user = user]

Matches(t, f) ==
    /\ f.user = 0 \/ t.user = f.user
    /\ f.completed = NoWord \/ t.completed = (f.completed = "true")
    /\ f.priority = NoWord \/ t.priority = f.priority
    /\ \/ f.search = Undef
       \/ f.search = <<>>
       \/ Contains(t.title, f.search)
       \/ Contains(t.description, f.search)

Find(coll, f) == {t \in coll : Matches(t, f)}

\* sort({createdAt: -1}): ids are handed out in creation order.
RECURSIVE SortNewestFirst(_)
SortNewestFirst(S) ==
    IF S = {} THEN <<>>
    ELSE LET m == CHOOSE t \in S : \A u \in S : u.id <= t.id
         IN <<m>> \o SortNewestFirst(S \ {m})

Min(a, b) == IF a < b THEN a ELSE b

\* .skip(n).limit(m) on a sorted result.
SkipLimit(seq, n, m) == SubSeq(seq, n + 1, Min(Len(seq), n + m))

\* parseInt of the page and limit parameters, with their defaults.
PageNum(q) == IF q.page = NoInt THEN 1 ELSE q.page

LimitNum(q) == IF q.limit = NoInt THEN 10 ELSE q.limit

\* A skip that counts the requested page too.
SkipOfWrong(pageNum, limitNum) == pageNum * limitNum

SkipOf(pageNum, limitNum) == (pageNum - 1) * limitNum

\* Math.ceil(total / limitNum)
Ceil(total, limitNum) == (total + limitNum - 1) \div limitNum

Pagination(total, pageNum, limitNum) ==
    [current |-> pageNum, pages |-> Ceil(total, limitNum),
     total |-> total, limit |-> limitNum]

-----------------------------------------------------------------------------
(* The routers: the middleware each route runs, in order.                  *)

\* routes/authRoutes.ts: register and login are mounted before
\* router.use(protect), the other three after it.
AuthRoutes ==
    [register |-> <<"registerValidation", "register">>,
     login |-> <<"loginValidation", "login">>,
     getProfile |-> <<"protect", "getProfile">>,
     updateProfile |-> <<"protect", "updateProfileValidation", "updateProfile">>,
     changePassword |-> <<"protect", "changePasswordValidation", "changePassword">>]

\* A router that validates before it authenticates.
TaskRoutesProtectLate ==
    [getTaskStats |-> <<"getTaskStats", "protect">>,
     getTasks |-> <<"taskQueryValidation", "getTasks", "protect">>,
     createTask |-> <<"createTaskValidation", "createTask", "protect">>,
     getTask |-> <<"taskIdValidation", "getTask", "protect">>,
     updateTask |-> <<"taskIdValidation", "updateTaskValidation", "updateTask", "protect">>,
     deleteTask |-> <<"taskIdValidation", "deleteTask", "protect">>,
     toggleTaskCompletion |-> <<"taskIdValidation", "toggleTaskCompletion", "protect">>]

\* routes/taskRoutes.ts: router.use(protect) comes first.
TaskRoutes ==
    [getTaskStats |-> <<"protect", "getTaskStats">>,
     getTasks |-> <<"protect", "taskQueryValidation", "getTasks">>,
     createTask |-> <<"protect", "createTaskValidation", "createTask">>,
     getTask |-> <<"protect", "taskIdValidation", "getTask">>,
     updateTask |-> <<"protect", "taskIdValidation", "updateTaskValidation", "updateTask">>,
     deleteTask |-> <<"protect", "taskIdValidation", "deleteTask">>,
     toggleTaskCompletion |-> <<"protect", "taskIdValidation", "toggleTaskCompletion">>]

AuthOps == DOMAIN AuthRoutes
TaskOps == DOMAIN TaskRoutes
AllOps == AuthOps \cup TaskOps

Route(op) == IF op \in AuthOps THEN AuthRoutes[op] ELSE TaskRoutes[op]

\* The routes the spec calls private.
ProtectedOps == TaskOps \cup {"getProfile", "updateProfile", "changePassword"}

-----------------------------------------------------------------------------
(* Requests and responses.                                                 *)

ReqIds == 1..MaxReq

NoBody == [none |-> TRUE]

NoData == [tasks |-> <<>>, task |-> {}, pagination |-> [current |-> 0, pages |-> 0, total |-> 0, limit |-> 0],
           stats |-> [totalCompletedTasks |-> 0, totalIncompletedTasks |-> 0,
                      totalTasks |-> 0],
           errors |-> <<>>, user |-> 0, token |-> FALSE]

NoToken == [kind |-> "unread", sub |-> 0]

\* A slot: the route handled, the position in its chain, the step inside the
\* controller, the bearer token once protect has read it, req.user (0 until
\* protect sets it), req.params.id, the body or query as validation left
\* it, and the document a controller holds.
Idle ==
    [op |-> "idle", pc |-> 0, step |-> 0, tok |-> NoToken, user |-> 0, id |-> 0,
     body |-> NoBody, doc |-> NoBody]

NoResp == [req |-> Idle, status |-> 0, message |-> "", data |-> NoData]

InFlight == {i \in ReqIds : reqs[i].op # "idle"}

At(i, mw) ==
    /\ reqs[i].op # "idle"
    /\ reqs[i].pc <= Len(Route(reqs[i].op))
    /\ Route(reqs[i].op)[reqs[i].pc] = mw

\* res.status(status).json({message, ...data}): the request r is over.
Respond(i, r, status, message, data) ==
    /\ resp' = [req |-> r, status |-> status, message |-> message, data |-> data]
    /\ reqs' = [reqs EXCEPT ![i] = Idle]

\* next()
Proceed(i, r) == 
    /\ reqs' = [reqs EXCEPT ![i] = [r EXCEPT !.pc = @ + 1]]
    /\ resp' = resp

\* A step inside a controller, between two awaits.
Continue(i, r) ==
    /\ reqs' = [reqs EXCEPT ![i] = [r EXCEPT !.step = @ + 1]]
    /\ resp' = resp

dbVars == <<users, tasks, issued, nextId>>
envVars == <<now, jwtSecret, flips>>
\* The in-memory prototype of app.ts, which the routers never touch.
protoVars == <<memTasks, taskIdCounter, freed>>

studyVars == <<vreq, vres, protoVars>>

-----------------------------------------------------------------------------
(* What the clients send.                                                  *)

EmailA == <<"a", "@", "a">>
EmailAUpper == <<"A", "@", "a">>
EmailB == <<"b", "@", "a">>
NotAnEmail == <<"a">>

PasswordP == <<"a", "A", "1", "a", "A", "1">>
PasswordQ == <<"b", "B", "1", "b", "B", "1">>
WeakPassword == <<"a", "A", "1">>

\* Each set has a core (a good request and a bad one), which a
\* specification widens: wide adds the other fields, dated the due dates.
RegisterBodies(wide) ==
    [name : {<<"a", "a">>}, email : {EmailA, EmailB}, password : {PasswordP}]
    \cup [name : {<<" ", "a">>}, email : {EmailB}, password : {WeakPassword}]
    \cup IF wide
         THEN [name : {<<"a", "a">>}, email : {EmailAUpper, NotAnEmail},
               password : {PasswordP}]
         ELSE {}

LoginBodies(wide) ==
    [email : {EmailA}, password : {PasswordP}]
    \cup [email : {NotAnEmail}, password : {<<>>}]
    \cup IF wide
         THEN [email : {EmailA, EmailB}, password : {PasswordP, PasswordQ}]
         ELSE {}

ProfileBodies(wide) ==
    [name : {Undef}, email : {EmailB}]
    \cup [name : {<<"a">>}, email : {Undef}]
    \cup IF wide THEN [name : {Undef}, email : {Undef, EmailA}] ELSE {}

PasswordBodies(wide) ==
    [currentPassword : {PasswordP}, newPassword : {PasswordQ}]
    \cup [currentPassword : {<<>>}, newPassword : {WeakPassword}]
    \cup IF wide
         THEN [currentPassword : {PasswordQ}, newPassword : {PasswordP, PasswordQ}]
         ELSE {}

BaseTaskBody ==
    [title |-> <<"a">>, description |-> Undef, priority |-> NoWord,
     dueDate |-> NoDate, completed |-> NoWord, user |-> 0]

Dates == {NoDate, BadDate} \cup {DateAt(t) : t \in 0..MaxTime}

\* A body may carry a user field: nothing stops a client from sending one.
CreateBodies(wide, dated) ==
    {[BaseTaskBody EXCEPT !.title = t] : t \in {<<" ", "a">>, <<" ">>}}
    \cup (IF wide
          THEN {[BaseTaskBody EXCEPT !.priority = "urgent"],
                [BaseTaskBody EXCEPT !.title = Undef]}
               \cup {[BaseTaskBody EXCEPT !.user = u] : u \in UserIds}
          ELSE {})
    \cup (IF dated
          THEN {[BaseTaskBody EXCEPT !.dueDate = d] : d \in Dates}
          ELSE {})

UpdateBodies(wide, dated) ==
    {[BaseTaskBody EXCEPT !.title = t] : t \in {<<"b">>, <<" ">>}}
    \cup (IF wide
          THEN {[BaseTaskBody EXCEPT !.title = Undef, !.completed = c] :
                  c \in {"true", "yes"}}
               \cup {[BaseTaskBody EXCEPT !.title = <<"b">>, !.user = u] :
                       u \in UserIds}
          ELSE {})
    \cup (IF dated
          THEN {[BaseTaskBody EXCEPT !.title = Undef, !.dueDate = d] : d \in Dates}
          ELSE {})

BaseQuery ==
    [completed |-> NoWord, priority |-> NoWord, search |-> Undef,
     page |-> NoInt, limit |-> NoInt, user |-> 0]

Queries(wide) ==
    {[BaseQuery EXCEPT !.completed = c] : c \in {NoWord, "maybe"}}
    \cup IF wide
         THEN {[BaseQuery EXCEPT !.completed = c] : c \in {"true", "1"}}
              \cup {[BaseQuery EXCEPT !.priority = "medium", !.user = u] :
                      u \in UserIds}
              \cup {[BaseQuery EXCEPT !.search = x] :
                      x \in {<<"A">>, <<"b">>, <<" ">>}}
              \cup {[BaseQuery EXCEPT !.page = pn, !.limit = ln] :
                      pn \in {BadInt, 1, 2}, ln \in {NoInt, 1}}
         ELSE {}

\* 0 is a string that is no ObjectId.
IdParams == {0} \cup TaskIds

Tokens ==
    {[kind |-> k, sub |-> 0] : k \in {"none", "invalid", "expired"}}
    \cup {[kind |-> "valid", sub |-> u] : u \in issued}

-----------------------------------------------------------------------------
(* The environment.                                                        *)

Creating(op) == Cardinality({j \in InFlight : reqs[j].op = op})

\* A request reaches its router.  lim holds the number of requests the
\* specification lets be in flight together and the sizes it lets the
\* collections grow to.
Arrive(i, op, lim) ==
    /\ reqs[i].op = "idle"
    /\ \A j \in ReqIds : j < i => reqs[j].op # "idle"
    /\ Cardinality(InFlight) < lim.conc
    /\ op = "register" => Cardinality(users) + Creating(op) < lim.users
    /\ op = "createTask" =>
        /\ Cardinality(tasks) + Creating(op) < lim.tasks
        /\ nextId + Creating(op) <= lim.tasks + 1
    /\ reqs' = [reqs EXCEPT ![i] = [Idle EXCEPT !.op = op, !.pc = 1]]
    /\ resp' = NoResp
    /\ UNCHANGED <<dbVars, envVars, studyVars>>

\* Time passes.
Tick ==
    /\ now < MaxTime
    /\ now' = now + 1
    /\ UNCHANGED <<dbVars, jwtSecret, flips, reqs, resp, studyVars>>

\* An administrator clears a user's isActive flag.
Deactivate(u) ==
    /\ \E d \in users : d.id = u /\ d.isActive
    /\ users' = {IF d.id = u THEN [d EXCEPT !.isActive = FALSE] ELSE d : d \in users}
    /\ UNCHANGED <<tasks, issued, nextId, envVars, reqs, resp, studyVars>>

-----------------------------------------------------------------------------
(* middleware/auth.ts: protect.                                            *)

ProtectOutcome(tok, coll) ==
    IF tok.kind = "none" THEN [user |-> 0, message |-> "Not authorized, no token"]
    ELSE IF tok.kind = "invalid" THEN [user |-> 0, message |-> "Invalid token"]
    ELSE IF tok.kind = "expired" THEN [user |-> 0, message |-> "Token expired"]
    ELSE IF \E d \in coll : d.id = tok.sub /\ d.isActive
         THEN [user |-> tok.sub, message |-> ""]
         ELSE [user |-> 0, message |-> "User not found or deactivated"]

Protect(i) ==
    /\ At(i, "protect")
    /\ \E tok \in Tokens :
        LET out == ProtectOutcome(tok, users)
            r == [reqs[i] EXCEPT !.tok = tok]
        IN  IF out.user = 0
            THEN Respond(i, r, 401, out.message, NoData)
            ELSE Proceed(i, [r EXCEPT !.user = out.user])
    /\ UNCHANGED <<dbVars, envVars, studyVars>>

-----------------------------------------------------------------------------
(* The validation middleware of each route.                                *)

Checked(i, v, r) ==
    LET h == handleValidationErrors(v.errors) IN
    IF h.next
    THEN Proceed(i, r)
    ELSE Respond(i, r, h.status, h.message, [NoData EXCEPT !.errors = h.errors])

ValidateRegister(i, wide) ==
    /\ At(i, "registerValidation")
    /\ \E body \in RegisterBodies(wide) :
        LET v == registerValidation(body) IN
        Checked(i, v, [reqs[i] EXCEPT !.body = v.body])
    /\ UNCHANGED <<dbVars, envVars, studyVars>>

loginValidation(body) ==
    [errors |->
        When(~IsEmail(ToStr(body.email)),
             Err("email", "Please provide a valid email"))
        \o When(ToStr(body.password) = <<>>,
                Err("password", "Password is required")),
     body |-> [body EXCEPT !.email = NormalizeEmail(ToStr(body.email))]]

ValidateLogin(i, wide) ==
    /\ At(i, "loginValidation")
    /\ \E body \in LoginBodies(wide) :
        LET v == loginValidation(body) IN
        Checked(i, v, [reqs[i] EXCEPT !.body = v.body])
    /\ UNCHANGED <<dbVars, envVars, studyVars>>

updateProfileValidation(body) ==
    [errors |->
        When(body.name # Undef /\ ~(Len(Trim(body.name)) \in NameMin..NameMax),
             Err("name", "Name must be between 2 and 50 characters"))
        \o When(body.email # Undef /\ ~IsEmail(body.email),
                Err("email", "Please provide a valid email")),
     body |-> [body EXCEPT !.name = TrimOpt(body.name),
                           !.email = IF body.email = Undef THEN Undef
                                     ELSE NormalizeEmail(body.email)]]

ValidateProfile(i, wide) ==
    /\ At(i, "updateProfileValidation")
    /\ \E body \in ProfileBodies(wide) :
        LET v == updateProfileValidation(body) IN
        Checked(i, v, [reqs[i] EXCEPT !.body = v.body])
    /\ UNCHANGED <<dbVars, envVars, studyVars>>

changePasswordValidation(body) ==
    [errors |->
        When(ToStr(body.currentPassword) = <<>>,
             Err("currentPassword", "Current password is required"))
        \o When(Len(ToStr(body.newPassword)) < PasswordMin,
                Err("newPassword", "New password must be at least 6 characters long"))
        \o When(~MatchesPasswordClasses(ToStr(body.newPassword)),
                Err("newPassword", "New password must contain at least one uppercase letter, one lowercase letter, and one number")),
     body |-> body]

ValidatePassword(i, wide) ==
    /\ At(i, "changePasswordValidation")
    /\ \E body \in PasswordBodies(wide) :
        LET v == changePasswordValidation(body) IN
        Checked(i, v, [reqs[i] EXCEPT !.body = v.body])
    /\ UNCHANGED <<dbVars, envVars, studyVars>>

ValidateTaskId(i) ==
    /\ At(i, "taskIdValidation")
    /\ \E id \in IdParams :
        Checked(i, [errors |-> taskIdValidation(id)], [reqs[i] EXCEPT !.id = id])
    /\ UNCHANGED <<dbVars, envVars, studyVars>>

ValidateCreateTask(i, wide, dated) ==
    /\ At(i, "createTaskValidation")
    /\ \E body \in CreateBodies(wide, dated) :
        LET v == createTaskValidation(body, now) IN
        Checked(i, v, [reqs[i] EXCEPT !.body = v.body])
    /\ UNCHANGED <<dbVars, envVars, studyVars>>

ValidateUpdateTask(i, wide, dated) ==
    /\ At(i, "updateTaskValidation")
    /\ \E body \in UpdateBodies(wide, dated) :
        LET v == updateTaskValidation(body, now) IN
        Checked(i, v, [reqs[i] EXCEPT !.body = v.body])
    /\ UNCHANGED <<dbVars, envVars, studyVars>>

ValidateTaskQueryFrom(i, Q) ==
    /\ At(i, "taskQueryValidation")
    /\ \E q \in Q :
        LET v == taskQueryValidation(q) IN
        Checked(i, v, [reqs[i] EXCEPT !.body = v.body])
    /\ UNCHANGED <<dbVars, envVars, studyVars>>

ValidateTaskQuery(i, wide) == ValidateTaskQueryFrom(i, Queries(wide))

-----------------------------------------------------------------------------
(* controllers/authController.ts                                           *)

\* generateToken throws when JWT_SECRET is not set.
\* A signer that signs with whatever the environment holds.
generateTokenUnchecked(secret) == TRUE

\* generateToken: throws when process.env.JWT_SECRET is not set, signs
\* otherwise.  TRUE stands for the signed token, FALSE for the throw.
generateToken(secret) == secret

\* A lookup that never finds anyone.
FindOneByEmailNone(coll, email) == {}

\* User.findOne({email})
FindOneByEmail(coll, email) == {u \in coll : u.email = email}

\* register, up to its first await: User.findOne({email}).
RegisterFindOne(i) ==
    /\ At(i, "register") /\ reqs[i].step = 0
    /\ IF FindOneByEmail(users, reqs[i].body.email) # {}
       THEN Respond(i, reqs[i], 400, "User with this email already exists", NoData)
       ELSE Continue(i, reqs[i])
    /\ UNCHANGED <<dbVars, envVars, studyVars>>

\* register, from User.create on.  A throw anywhere lands in the catch.
RegisterCreate(i) ==
    /\ At(i, "register") /\ reqs[i].step = 1
    /\ LET id == Cardinality(users) + 1
           body == reqs[i].body
       IN IF ~EmailIndexAllows(users, id, body.email)
          THEN /\ Respond(i, reqs[i], 500, "Server error during registration", NoData)
               /\ UNCHANGED <<users, issued>>
          ELSE /\ users' = users \cup {UserDoc(id, body.email, body.password)}
               /\ IF generateToken(jwtSecret)
                  THEN /\ issued' = issued \cup {id}
                       /\ Respond(i, reqs[i], 201, "User registered successfully",
                                  [NoData EXCEPT !.user = id, !.token = TRUE])
                  ELSE /\ issued' = issued
                       /\ Respond(i, reqs[i], 500, "Server error during registration", NoData)
    /\ UNCHANGED <<tasks, nextId, envVars, studyVars>>

Login(i) ==
    /\ At(i, "login")
    /\ LET body == reqs[i].body
           found == {u \in users : u.email = body.email /\ u.isActive}
       IN IF found = {} \/ \A u \in found : ~comparePassword(body.password, u.password)
          THEN /\ Respond(i, reqs[i], 401, "Invalid email or password", NoData)
               /\ issued' = issued
          ELSE LET u == CHOOSE u \in found : comparePassword(body.password, u.password)
               IN IF generateToken(jwtSecret)
                  THEN /\ issued' = issued \cup {u.id}
                       /\ Respond(i, reqs[i], 200, "Login successful",
                                  [NoData EXCEPT !.user = u.id, !.token = TRUE])
                  ELSE /\ issued' = issued
                       /\ Respond(i, reqs[i], 500, "Server error during login", NoData)
    /\ UNCHANGED <<users, tasks, nextId, envVars, studyVars>>

GetProfile(i) ==
    /\ At(i, "getProfile")
    /\ Respond(i, reqs[i], 200, "", [NoData EXCEPT !.user = reqs[i].user])
    /\ UNCHANGED <<dbVars, envVars, studyVars>>

UpdateProfile(i) ==
    /\ At(i, "updateProfile")
    /\ LET r == reqs[i] IN
       IF r.body.email = Undef
       THEN /\ Respond(i, reqs[i], 200, "Profile updated successfully",
                       [NoData EXCEPT !.user = r.user])
            /\ users' = users
       ELSE IF ~EmailIndexAllows(users, r.user, r.body.email)
       THEN /\ Respond(i, reqs[i], 400, "Email already in use", NoData)
            /\ users' = users
       ELSE /\ users' = {IF d.id = r.user THEN [d EXCEPT !.email = r.body.email]
                         ELSE d : d \in users}
            /\ Respond(i, reqs[i], 200, "Profile updated successfully",
                       [NoData EXCEPT !.user = r.user])
    /\ UNCHANGED <<tasks, issued, nextId, envVars, studyVars>>

ChangePassword(i) ==
    /\ At(i, "changePassword")
    /\ LET r == reqs[i] IN
       IF \E d \in users : d.id = r.user
                           /\ comparePassword(r.body.currentPassword, d.password)
       THEN /\ users' = {IF d.id = r.user
                         THEN [d EXCEPT !.password = Hash(r.body.newPassword)]
                         ELSE d : d \in users}
            /\ Respond(i, reqs[i], 200, "Password changed successfully", NoData)
       ELSE /\ users' = users
            /\ Respond(i, reqs[i], 400, "Current password is incorrect", NoData)
    /\ UNCHANGED <<tasks, issued, nextId, envVars, studyVars>>

-----------------------------------------------------------------------------
(* controllers/taskController.ts                                           *)

\* if (!req.user) { res.status(401) ... return; }
NoUser(i) == Respond(i, reqs[i], 401, "User not found", NoData)

\* getTasks, up to the await on find().sort().skip().limit().
GetTasksFind(i) ==
    /\ At(i, "getTasks") /\ reqs[i].step = 0
    /\ IF reqs[i].user = 0 THEN NoUser(i)
       ELSE LET r == reqs[i]
                f == Filter(r.body, r.user)
                page == SkipLimit(SortNewestFirst(Find(tasks, f)),
                                  SkipOf(PageNum(r.body), LimitNum(r.body)),
                                  LimitNum(r.body))
            IN Continue(i, [r EXCEPT !.doc = [tasks |-> page]])
    /\ UNCHANGED <<dbVars, envVars, studyVars>>

\* getTasks, from the await on countDocuments() on.
GetTasksCount(i) ==
    /\ At(i, "getTasks") /\ reqs[i].step = 1
    /\ LET r == reqs[i]
           total == Cardinality(Find(tasks, Filter(r.body, r.user)))
       IN Respond(i, reqs[i], 200, "",
                  [NoData EXCEPT
                      !.tasks = r.doc.tasks,
                      !.pagination = Pagination(total, PageNum(r.body),
                                                LimitNum(r.body))])
    /\ UNCHANGED <<dbVars, envVars, studyVars>>

\* The document createTask hands to Task.create: a body that takes the owner
\* from the request when it names one.
CreateFieldsFromBody(body, user) ==
    [title |-> body.title, description |-> body.description,
     priority |-> body.priority, dueDate |-> body.dueDate,
     user |-> IF body.user # 0 THEN body.user ELSE user]

CreateFields(body, user) ==
    [title |-> body.title, description |-> body.description,
     priority |-> body.priority, dueDate |-> body.dueDate, user |-> user]

CreateTask(i) ==
    /\ At(i, "createTask")
    /\ IF reqs[i].user = 0 THEN NoUser(i) /\ UNCHANGED <<tasks, nextId>>
       ELSE LET t == NewTask(nextId, CreateFields(reqs[i].body, reqs[i].user)) IN
            IF TaskValid(t, now)
            THEN /\ tasks' = tasks \cup {t}
                 /\ nextId' = nextId + 1
                 /\ Respond(i, reqs[i], 201, "Task created successfully",
                            [NoData EXCEPT !.task = {t}])
            ELSE /\ Respond(i, reqs[i], 500, "Server error while creating task", NoData)
                 /\ UNCHANGED <<tasks, nextId>>
    /\ UNCHANGED <<users, issued, envVars, studyVars>>

UpdateTask(i) ==
    /\ At(i, "updateTask")
    /\ IF reqs[i].user = 0 THEN NoUser(i) /\ tasks' = tasks
       ELSE LET r == reqs[i]
                found == FindOwned(tasks, r.id, r.user)
            IN  IF ~UpdateValid(r.body, now)
                THEN /\ Respond(i, reqs[i], 500, "Server error while updating task", NoData)
                     /\ tasks' = tasks
                ELSE IF found = {}
                THEN /\ Respond(i, reqs[i], 404, "Task not found", NoData)
                     /\ tasks' = tasks
                ELSE LET t == ApplyUpdate(CHOOSE t \in found : TRUE, r.body) IN
                     /\ tasks' = (tasks \ found) \cup {t}
                     /\ Respond(i, reqs[i], 200, "Task updated successfully",
                                [NoData EXCEPT !.task = {t}])
    /\ UNCHANGED <<users, issued, nextId, envVars, studyVars>>

DeleteTask(i) ==
    /\ At(i, "deleteTask")
    /\ IF reqs[i].user = 0 THEN NoUser(i) /\ tasks' = tasks
       ELSE LET r == reqs[i]
                found == FindByIdArg(tasks, [id |-> r.id, user |-> r.user])
            IN  IF found = {}
                THEN /\ Respond(i, reqs[i], 404, "Task not found", NoData)
                     /\ tasks' = tasks
                ELSE /\ tasks' = tasks \ found
                     /\ Respond(i, reqs[i], 200, "Task deleted successfully",
                                [NoData EXCEPT !.task = found])
    /\ UNCHANGED <<users, issued, nextId, envVars, studyVars>>

GetTask(i) ==
    /\ At(i, "getTask")
    /\ IF reqs[i].user = 0 THEN NoUser(i)
       ELSE LET found == FindOwned(tasks, reqs[i].id, reqs[i].user) IN
            IF found = {}
            THEN Respond(i, reqs[i], 404, "Task not found", NoData)
            ELSE Respond(i, reqs[i], 200, "", [NoData EXCEPT !.task = found])
    /\ UNCHANGED <<dbVars, envVars, studyVars>>

\* toggleTaskCompletion, up to the await on findOne().
ToggleFindOne(i) ==
    /\ At(i, "toggleTaskCompletion") /\ reqs[i].step = 0
    /\ IF reqs[i].user = 0 THEN NoUser(i)
       ELSE LET found == FindOwned(tasks, reqs[i].id, reqs[i].user) IN
            IF found = {}
            THEN Respond(i, reqs[i], 404, "Task not found", NoData)
            ELSE Continue(i, [reqs[i] EXCEPT !.doc = CHOOSE t \in found : TRUE])
    /\ UNCHANGED <<dbVars, envVars, studyVars>>

\* A toggle that only ever marks a task completed.
ToggledOn(doc) == [doc EXCEPT !.completed = TRUE]

\* task.completed = !task.completed
Toggled(doc) == [doc EXCEPT !.completed = ~@]

\* task.save(): validate, then $set the modified path on the stored document
\* with the held document's _id.  Whether validation also runs the dueDate
\* validator of the unmodified path depends on the mongoose release, so both
\* are allowed.  A document deleted in the meantime makes save() throw.
ToggleSave(i) ==
    /\ At(i, "toggleTaskCompletion") /\ reqs[i].step = 1
    /\ LET d == Toggled(reqs[i].doc)
           stored == {t \in tasks : t.id = d.id}
       IN \E revalidate \in BOOLEAN :
          IF (revalidate /\ ~DueDateValidator(d.dueDate, now)) \/ stored = {}
          THEN /\ Respond(i, reqs[i], 500, "Server error while toggling task", NoData)
               /\ UNCHANGED <<tasks, flips>>
          ELSE /\ tasks' = (tasks \ stored)
                           \cup {[t EXCEPT !.completed = d.completed] : t \in stored}
               /\ flips' = [flips EXCEPT ![d.id] = ~@]
               /\ Respond(i, reqs[i], 200,
                          IF d.completed THEN "Task marked as completed"
                          ELSE "Task marked as incomplete",
                          [NoData EXCEPT !.task = {d}])
    /\ UNCHANGED <<users, issued, nextId, now, jwtSecret, studyVars>>

\* getTaskStats, up to the first countDocuments().
StatsCountCompleted(i) ==
    /\ At(i, "getTaskStats") /\ reqs[i].step = 0
    /\ IF reqs[i].user = 0 THEN NoUser(i)
       ELSE LET n == Cardinality({t \in tasks : t.completed /\ t.user = reqs[i].user})
            IN Continue(i, [reqs[i] EXCEPT !.doc = [totalCompletedTasks |-> n]])
    /\ UNCHANGED <<dbVars, envVars, studyVars>>

StatsCountIncompleted(i) ==
    /\ At(i, "getTaskStats") /\ reqs[i].step = 1
    /\ LET done == reqs[i].doc.totalCompletedTasks
           n == Cardinality({t \in tasks : ~t.completed /\ t.user = reqs[i].user})
       IN Respond(i, reqs[i], 200, "tasks stats fetched successfully",
                  [NoData EXCEPT !.stats =
                      [totalCompletedTasks |-> done, totalIncompletedTasks |-> n,
                       totalTasks |-> done + n]])
    /\ UNCHANGED <<dbVars, envVars, studyVars>>

-----------------------------------------------------------------------------
(* Persistence faults: an awaited Mongoose call rejects (connection lost,  *)
(* timeout, cast error).                                                   *)

\* The message of each controller's catch block.  getTasks has none: its
\* body is not inside a try.
CatchMessage ==
    [createTask |-> "Server error while creating task",
     updateTask |-> "Server error while updating task",
     deleteTask |-> "Server error while deleting task",
     getTask |-> "Server error while fetching task",
     toggleTaskCompletion |-> "Server error while toggling task",
     getTaskStats |-> "Server error while loading tasks stats"]

\* A query or a write of a controller with a catch block rejects: nothing is
\* written and the catch answers.
PersistenceFault(i) ==
    /\ reqs[i].op \in DOMAIN CatchMessage
    /\ At(i, reqs[i].op)
    /\ reqs[i].user # 0
    /\ Respond(i, reqs[i], 500, CatchMessage[reqs[i].op], NoData)
    /\ UNCHANGED <<dbVars, envVars, studyVars>>

\* createTask: Task.create goes through, task.populate rejects.
CreateTaskPopulateFault(i) ==
    /\ At(i, "createTask")
    /\ reqs[i].user # 0
    /\ LET t == NewTask(nextId, CreateFields(reqs[i].body, reqs[i].user)) IN
        /\ TaskValid(t, now)
        /\ tasks' = tasks \cup {t}
        /\ nextId' = nextId + 1
    /\ Respond(i, reqs[i], 500, CatchMessage.createTask, NoData)
    /\ UNCHANGED <<users, issued, envVars, studyVars>>

\* toggleTaskCompletion: task.save goes through, task.populate rejects.
TogglePopulateFault(i) ==
    /\ At(i, "toggleTaskCompletion") /\ reqs[i].step = 1
    /\ LET d == Toggled(reqs[i].doc)
           stored == {t \in tasks : t.id = d.id}
       IN /\ stored # {}
          /\ tasks' = (tasks \ stored)
                      \cup {[t EXCEPT !.completed = d.completed] : t \in stored}
          /\ flips' = [flips EXCEPT ![d.id] = ~@]
    /\ Respond(i, reqs[i], 500, CatchMessage.toggleTaskCompletion, NoData)
    /\ UNCHANGED <<users, issued, nextId, now, jwtSecret, studyVars>>

\* getTasks: Task.find or Task.countDocuments rejects and so does the promise
\* of the handler.  Express 5 hands the error to the application's error
\* handler; Express 4 leaves the rejection unhandled and sends nothing
\* (status 0).
GetTasksFault(i) ==
    /\ At(i, "getTasks")
    /\ reqs[i].user # 0
    /\ \E forwarded \in BOOLEAN :
        IF forwarded
        THEN Respond(i, reqs[i], 500, "Internal server error", NoData)
        ELSE Respond(i, reqs[i], 0, "", NoData)
    /\ UNCHANGED <<dbVars, envVars, studyVars>>

-----------------------------------------------------------------------------
(* app.ts, first part: the prototype that keeps its tasks in an array.     *)
(* Its handlers are synchronous, so each runs as one step.  The createdAt  *)
(* and updatedAt stamps are left out, and the responses, which never feed  *)
(* back into the array, are noted but not recorded.                        *)

\* let tasks: Task[] = []; let taskIdCounter = 1;
ProtoIdle ==
    /\ memTasks = <<>>
    /\ taskIdCounter = 1
    /\ freed = {}

DigitChars == <<"0", "1", "2", "3", "4", "5", "6", "7", "8", "9">>

\* Number.prototype.toString, in base ten.
RECURSIVE NumToString(_)
NumToString(n) ==
    IF n < 10 THEN <<DigitChars[n + 1]>>
    ELSE NumToString(n \div 10) \o <<DigitChars[(n % 10) + 1]>>

\* A generator that hands the counter out without advancing it.
generateIdStuck(counter) == [id |-> NumToString(counter), next |-> counter]

\* generateId: (taskIdCounter++).toString()
generateId(counter) == [id |-> NumToString(counter), next |-> counter + 1]

\* tasks.findIndex(task => task.id === id), 0 for -1.
FindIndex(arr, id) ==
    LET hits == {k \in 1..Len(arr) : arr[k].id = id} IN
    IF hits = {} THEN 0 ELSE CHOOSE k \in hits : \A j \in hits : k <= j

Splice(arr, k) == SubSeq(arr, 1, k - 1) \o SubSeq(arr, k + 1, Len(arr))

\* The ids a client may ask for: the decimal ids, and strings that are none.
MemIdParams ==
    {NumToString(n) : n \in 1..MaxIdCounter} \cup {<<"0", "1">>, <<"a">>}

MemCreateBodies ==
    [title : {Undef, <<Space>>, <<Space, "a">>}, description : {Undef}]

MemUpdateBodies ==
    [title : {Undef, <<Space>>, <<"b">>}, description : {Undef},
     completed : {NoWord}]
    \cup [title : {Undef}, description : {<<"c", Space>>},
          completed : {"true", "false"}]

\* app.post('/api/tasks')
MemCreateTask(body) ==
    /\ taskIdCounter < MaxIdCounter
    /\ Len(memTasks) < MaxMemTasks
    /\ IF body.title = Undef \/ Trim(body.title) = <<>>
       THEN /\ resp' = resp  \* res.status(400)
            /\ UNCHANGED protoVars
       ELSE LET g == generateId(taskIdCounter)
                newTask == [id |-> g.id, title |-> Trim(body.title),
                            description |-> Trim(ToStr(body.description)),
                            completed |-> FALSE]
            IN /\ taskIdCounter' = g.next
               /\ memTasks' = Append(memTasks, newTask)
               /\ freed' = freed
               /\ resp' = resp  \* res.status(201)
    /\ UNCHANGED <<dbVars, envVars, reqs, vreq, vres>>

\* app.put('/api/tasks/:id')
MemUpdateTask(id, body) ==
    /\ LET k == FindIndex(memTasks, id) IN
       IF k = 0
       THEN /\ resp' = resp  \* res.status(404)
            /\ UNCHANGED protoVars
       ELSE IF body.title # Undef /\ Trim(body.title) = <<>>
       THEN /\ resp' = resp  \* res.status(400)
            /\ UNCHANGED protoVars
       ELSE LET e == memTasks[k]
                t == [e EXCEPT
                        !.title = IF body.title # Undef THEN Trim(body.title) ELSE @,
                        !.description = IF body.description # Undef
                                        THEN Trim(body.description) ELSE @,
                        !.completed = IF body.completed # NoWord
                                      THEN body.completed = "true" ELSE @]
            IN /\ memTasks' = [memTasks EXCEPT ![k] = t]
               /\ UNCHANGED <<taskIdCounter, freed>>
               /\ resp' = resp  \* res.status(200)
    /\ UNCHANGED <<dbVars, envVars, reqs, vreq, vres>>

\* app.delete('/api/tasks/:id')
MemDeleteTask(id) ==
    /\ LET k == FindIndex(memTasks, id) IN
       IF k = 0
       THEN /\ resp' = resp  \* res.status(404)
            /\ UNCHANGED protoVars
       ELSE /\ memTasks' = Splice(memTasks, k)
            /\ freed' = freed \cup {memTasks[k].id}
            /\ taskIdCounter' = taskIdCounter
            /\ resp' = resp  \* res.status(200)
    /\ UNCHANGED <<dbVars, envVars, reqs, vreq, vres>>

\* app.patch('/api/tasks/:id/toggle')
MemToggleTask(id) ==
    /\ LET k == FindIndex(memTasks, id) IN
       IF k = 0
       THEN /\ resp' = resp  \* res.status(404)
            /\ UNCHANGED protoVars
       ELSE LET t == [memTasks[k] EXCEPT !.completed = ~@] IN
            /\ memTasks' = [memTasks EXCEPT ![k] = t]
            /\ UNCHANGED <<taskIdCounter, freed>>
            /\ resp' = resp  \* res.status(200)
    /\ UNCHANGED <<dbVars, envVars, reqs, vreq, vres>>

-----------------------------------------------------------------------------
(* The specifications.  Requests are independent of one another, so each   *)
(* specification lets in the routes and the number of requests in flight   *)
(* that the properties studied under it are about.                         *)

StudyIdle ==
    /\ vreq = NoBody
    /\ vres = NoBody
    /\ ProtoIdle

\* The database as a fresh deployment finds it.
Init ==
    /\ users = {}
    /\ tasks = {}
    /\ now = 0
    /\ jwtSecret = TRUE
    /\ issued = {}
    /\ nextId = 1
    /\ flips = [id \in TaskIds |-> FALSE]
    /\ reqs = [i \in ReqIds |-> Idle]
    /\ resp = NoResp
    /\ StudyIdle

\* The database after two users have registered.
InitTasks ==
    /\ users = {UserDoc(1, EmailA, PasswordP), UserDoc(2, EmailB, PasswordP)}
    /\ tasks = {}
    /\ now = 0
    /\ jwtSecret = TRUE
    /\ issued = {1, 2}
    /\ nextId = 1
    /\ flips = [id \in TaskIds |-> FALSE]
    /\ reqs = [i \in ReqIds |-> Idle]
    /\ resp = NoResp
    /\ StudyIdle

AuthMiddleware(i, wide) ==
    \/ ValidateRegister(i, wide)
    \/ ValidateLogin(i, wide)
    \/ ValidateProfile(i, wide)
    \/ ValidatePassword(i, wide)

TaskMiddleware(i, wide, dated) ==
    \/ ValidateTaskId(i)
    \/ ValidateCreateTask(i, wide, dated)
    \/ ValidateUpdateTask(i, wide, dated)
    \/ ValidateTaskQuery(i, wide)

AuthController(i) ==
    \/ RegisterFindOne(i)
    \/ RegisterCreate(i)
    \/ Login(i)
    \/ GetProfile(i)
    \/ UpdateProfile(i)
    \/ ChangePassword(i)

TaskController(i) ==
    \/ GetTasksFind(i)
    \/ GetTasksCount(i)
    \/ CreateTask(i)
    \/ UpdateTask(i)
    \/ DeleteTask(i)
    \/ GetTask(i)
    \/ ToggleFindOne(i)
    \/ ToggleSave(i)
    \/ StatsCountCompleted(i)
    \/ StatsCountIncompleted(i)

\* The task router, one request at a time.
TasksLimits == [conc |-> 1, users |-> MaxUsers, tasks |-> MaxTasks]

Next ==
    \/ \E i \in ReqIds, op \in TaskOps : Arrive(i, op, TasksLimits)
    \/ \E i \in ReqIds : Protect(i)
    \/ \E i \in ReqIds : TaskMiddleware(i, TRUE, FALSE)
    \/ \E i \in ReqIds : TaskController(i)

Spec == InitTasks /\ [][Next]_vars

\* The routes that write a task, with due dates and the clock running
\* between any two steps of a request.
DueLimits == [conc |-> 1, users |-> MaxUsers, tasks |-> 1]

DueOps == {"createTask", "updateTask", "toggleTaskCompletion"}

NextDue ==
    \/ \E i \in ReqIds, op \in DueOps : Arrive(i, op, DueLimits)
    \/ \E i \in ReqIds : Protect(i)
    \/ \E i \in ReqIds : ValidateTaskId(i)
    \/ \E i \in ReqIds : ValidateCreateTask(i, FALSE, TRUE)
    \/ \E i \in ReqIds : ValidateUpdateTask(i, FALSE, TRUE)
    \/ \E i \in ReqIds : CreateTask(i)
    \/ \E i \in ReqIds : UpdateTask(i)
    \/ \E i \in ReqIds : ToggleFindOne(i)
    \/ \E i \in ReqIds : ToggleSave(i)
    \/ Tick

SpecDue == InitTasks /\ [][NextDue]_vars

\* The auth router, requests in flight together.
AuthLimits == [conc |-> MaxReq, users |-> MaxUsers, tasks |-> 0]

NextAuth ==
    \/ \E i \in ReqIds, op \in AuthOps : Arrive(i, op, AuthLimits)
    \/ \E i \in ReqIds : Protect(i)
    \/ \E i \in ReqIds : AuthMiddleware(i, TRUE)
    \/ \E i \in ReqIds : AuthController(i)
    \/ \E u \in UserIds : Deactivate(u)

SpecAuth == Init /\ [][NextAuth]_vars

\* The public routes of the auth router, requests in flight together.
PublicOps == {"register", "login"}

NextRegister ==
    \/ \E i \in ReqIds, op \in PublicOps : Arrive(i, op, AuthLimits)
    \/ \E i \in ReqIds : ValidateRegister(i, TRUE)
    \/ \E i \in ReqIds : ValidateLogin(i, TRUE)
    \/ \E i \in ReqIds : RegisterFindOne(i)
    \/ \E i \in ReqIds : RegisterCreate(i)
    \/ \E i \in ReqIds : Login(i)

SpecRegister == Init /\ [][NextRegister]_vars

\* The same routes on a deployment that may lack JWT_SECRET.
InitSecret ==
    /\ users = {}
    /\ tasks = {}
    /\ now = 0
    /\ jwtSecret \in BOOLEAN
    /\ issued = {}
    /\ nextId = 1
    /\ flips = [id \in TaskIds |-> FALSE]
    /\ reqs = [i \in ReqIds |-> Idle]
    /\ resp = NoResp
    /\ StudyIdle

SpecSecret == InitSecret /\ [][NextRegister]_vars

\* Both routers, one request at a time, one task at most.
RoutesLimits == [conc |-> 1, users |-> MaxUsers, tasks |-> 1]

NextRoutes ==
    \/ \E i \in ReqIds, op \in AllOps : Arrive(i, op, RoutesLimits)
    \/ \E i \in ReqIds : Protect(i)
    \/ \E i \in ReqIds : AuthMiddleware(i, FALSE)
    \/ \E i \in ReqIds : TaskMiddleware(i, FALSE, FALSE)
    \/ \E i \in ReqIds : AuthController(i)
    \/ \E i \in ReqIds : TaskController(i)
    \/ \E u \in UserIds : Deactivate(u)

SpecRoutes == Init /\ [][NextRoutes]_vars

\* The task router over a database that may fail, one request at a time.
FaultLimits == [conc |-> 1, users |-> MaxUsers, tasks |-> 1]

NextFault ==
    \/ \E i \in ReqIds, op \in TaskOps : Arrive(i, op, FaultLimits)
    \/ \E i \in ReqIds : Protect(i)
    \/ \E i \in ReqIds : TaskMiddleware(i, FALSE, FALSE)
    \/ \E i \in ReqIds : TaskController(i)
    \/ \E i \in ReqIds : PersistenceFault(i)
    \/ \E i \in ReqIds : CreateTaskPopulateFault(i)
    \/ \E i \in ReqIds : TogglePopulateFault(i)
    \/ \E i \in ReqIds : GetTasksFault(i)

SpecFault == InitTasks /\ [][NextFault]_vars

\* Toggles of stored tasks, requests in flight together.
InitToggle ==
    /\ users = {UserDoc(1, EmailA, PasswordP), UserDoc(2, EmailB, PasswordP)}
    /\ tasks = {NewTask(1, CreateFields(BaseTaskBody, 1)),
                NewTask(2, CreateFields(BaseTaskBody, 2))}
    /\ now = 0
    /\ jwtSecret = TRUE
    /\ issued = {1, 2}
    /\ nextId = 3
    /\ flips = [id \in TaskIds |-> FALSE]
    /\ reqs = [i \in ReqIds |-> Idle]
    /\ resp = NoResp
    /\ StudyIdle

ToggleLimits == [conc |-> MaxReq, users |-> MaxUsers, tasks |-> MaxTasks]

NextToggle ==
    \/ \E i \in ReqIds : Arrive(i, "toggleTaskCompletion", ToggleLimits)
    \/ \E i \in ReqIds : Protect(i)
    \/ \E i \in ReqIds : ValidateTaskId(i)
    \/ \E i \in ReqIds : ToggleFindOne(i)
    \/ \E i \in ReqIds : ToggleSave(i)

SpecToggle == InitToggle /\ [][NextToggle]_vars

\* The prototype on its own.
NextMemory ==
    \/ \E body \in MemCreateBodies : MemCreateTask(body)
    \/ \E id \in MemIdParams, body \in MemUpdateBodies : MemUpdateTask(id, body)
    \/ \E id \in MemIdParams : MemDeleteTask(id)
    \/ \E id \in MemIdParams : MemToggleTask(id)

SpecMemory == Init /\ [][NextMemory]_vars

-----------------------------------------------------------------------------
(* The validation chains on their own: one request is handed to one chain, *)
(* and the chain's verdict and the body it leaves are recorded.            *)

RECURSIVE Strings(_, _)
Strings(alphabet, n) ==
    IF n = 0 THEN {<<>>}
    ELSE LET S == Strings(alphabet, n - 1)
         IN S \cup {Append(x, c) : x \in S, c \in alphabet}

StudyNames == {Undef} \cup Strings({"a", Space}, MaxNameLen)

StudyEmails == {Undef, EmailA, EmailAUpper, NotAnEmail}

StudyPasswords == {Undef} \cup Strings({"a", "A", "1", LineBreak}, MaxPwdLen)

StudyTaskBodies ==
    [title : StudyNames, description : {Undef, <<Space, "a", Space>>},
     priority : {NoWord, "low", "urgent"}, dueDate : Dates,
     completed : {NoWord, "true", "yes"}, user : {0}]

StudyQueries ==
    [completed : {NoWord, "true", "maybe"}, priority : {NoWord, "low", "urgent"},
     search : {Undef, <<Space>>, <<"a">>, <<Space, "a">>},
     page : {NoInt, BadInt, 0, 1, 2},
     limit : {NoInt, BadInt, 0, 1, LimitMax, LimitMax + 1}, user : {0}]

StudyRequests ==
    [chain : {"registerValidation"}, clock : {0},
     body : [name : StudyNames, email : StudyEmails,
             password : {Undef, WeakPassword, PasswordP}]
            \cup [name : {<<"a", "a">>}, email : {EmailA},
                  password : StudyPasswords]]
    \cup [chain : {"loginValidation"}, clock : {0},
          body : [email : StudyEmails, password : {Undef, <<>>, PasswordP}]]
    \cup [chain : {"changePasswordValidation"}, clock : {0},
          body : [currentPassword : {Undef, PasswordP},
                  newPassword : StudyPasswords]]
    \cup [chain : {"createTaskValidation", "updateTaskValidation"},
          clock : 0..MaxTime, body : StudyTaskBodies]
    \cup [chain : {"taskQueryValidation"}, clock : {0}, body : StudyQueries]
    \cup [chain : {"taskIdValidation"}, clock : {0}, body : [id : IdParams]]

\* What each chain makes of the request: its failures and the body after
\* its sanitizers.
ChainOf(r) ==
    CASE r.chain = "registerValidation" -> registerValidation(r.body)
      [] r.chain = "loginValidation" -> loginValidation(r.body)
      [] r.chain = "changePasswordValidation" -> changePasswordValidation(r.body)
      [] r.chain = "createTaskValidation" -> createTaskValidation(r.body, r.clock)
      [] r.chain = "updateTaskValidation" -> updateTaskValidation(r.body, r.clock)
      [] r.chain = "taskQueryValidation" -> taskQueryValidation(r.body)
      [] r.chain = "taskIdValidation" ->
            [errors |-> taskIdValidation(r.body.id), body |-> r.body]

\* The chain runs, then handleValidationErrors.
RunChain(chain) ==
    /\ vres = NoBody
    /\ vreq.chain = chain
    /\ LET v == ChainOf(vreq)
           h == handleValidationErrors(v.errors)
       IN vres' = [next |-> h.next, status |-> h.status, message |-> h.message,
                   errors |-> h.errors, body |-> v.body]
    /\ UNCHANGED <<dbVars, envVars, reqs, resp, vreq, protoVars>>

InitValidation ==
    /\ users = {}
    /\ tasks = {}
    /\ now = 0
    /\ jwtSecret = TRUE
    /\ issued = {}
    /\ nextId = 1
    /\ flips = [id \in TaskIds |-> FALSE]
    /\ reqs = [i \in ReqIds |-> Idle]
    /\ resp = NoResp
    /\ vreq \in StudyRequests
    /\ vres = NoBody
    /\ ProtoIdle

NextValidation ==
    \/ RunChain("registerValidation")
    \/ RunChain("loginValidation")
    \/ RunChain("changePasswordValidation")
    \/ RunChain("createTaskValidation")
    \/ RunChain("updateTaskValidation")
    \/ RunChain("taskQueryValidation")
    \/ RunChain("taskIdValidation")

SpecValidation == InitValidation /\ [][NextValidation]_vars

-----------------------------------------------------------------------------
(* getTasks over collections of every size up to MaxTotal.                 *)

\* T tasks of user 1, and one of user 2 created after them.
SeedTasks(T) ==
    {NewTask(id, CreateFields(BaseTaskBody, 1)) : id \in 1..T}
    \cup {NewTask(T + 1, CreateFields(BaseTaskBody, 2))}

PageQueries ==
    {[BaseQuery EXCEPT !.page = pn, !.limit = ln] :
        pn \in {NoInt} \cup 0..MaxPage,
        ln \in {NoInt} \cup 0..MaxLimit \cup {LimitMax, LimitMax + 1}}

InitPage ==
    /\ users = {UserDoc(1, EmailA, PasswordP), UserDoc(2, EmailB, PasswordP)}
    /\ \E T \in 0..MaxTotal : tasks = SeedTasks(T) /\ nextId = T + 2
    /\ now = 0
    /\ jwtSecret = TRUE
    /\ issued = {1, 2}
    /\ flips = [id \in TaskIds |-> FALSE]
    /\ reqs = [i \in ReqIds |-> Idle]
    /\ resp = NoResp
    /\ StudyIdle

PageLimits == [conc |-> 1, users |-> MaxUsers, tasks |-> 0]

NextPage ==
    \/ \E i \in ReqIds : Arrive(i, "getTasks", PageLimits)
    \/ \E i \in ReqIds : Protect(i)
    \/ \E i \in ReqIds : ValidateTaskQueryFrom(i, PageQueries)
    \/ \E i \in ReqIds : GetTasksFind(i)
    \/ \E i \in ReqIds : GetTasksCount(i)

SpecPage == InitPage /\ [][NextPage]_vars

-----------------------------------------------------------------------------
(* Properties.                                                             *)

ByIdOps == {"getTask", "updateTask", "deleteTask", "toggleTaskCompletion"}

\* Request i takes a step.
Steps(i) == reqs[i].op # "idle" /\ reqs'[i] # reqs[i]

\* Request i is answered in this step.
Answered(i) == reqs[i].op # "idle" /\ reqs'[i] = Idle

\* Request i is inside its controller, before its first await.
Entering(i, ops) ==
    /\ reqs[i].op \in ops
    /\ At(i, reqs[i].op)
    /\ reqs[i].step = 0

\* C1: when a by-id task operation (getTask, updateTask, deleteTask,
\* toggleTaskCompletion) names a task that exists and belongs to another
\* user than the caller, the answer is 404 "Task not found", and the task
\* is not returned, not modified and not deleted.
C1_ForeignTaskIs404 ==
    [][\A i \in ReqIds :
        (/\ Entering(i, ByIdOps)
         /\ Steps(i)
         /\ reqs[i].user # 0
         /\ \E t \in tasks : t.id = reqs[i].id /\ t.user # reqs[i].user)
        => (/\ Answered(i)
            /\ resp'.status = 404
            /\ resp'.message = "Task not found"
            /\ resp'.data.task = {}
            /\ tasks' = tasks)]_vars

\* C2: after a successful createTask, the owner of the persisted task is the
\* identity protect attached to the request, whatever the body carries.
C2_OwnerIsCaller ==
    (resp.req.op = "createTask" /\ resp.status = 201)
    => /\ resp.data.task # {}
       /\ \A t \in resp.data.task : t \in tasks /\ t.user = resp.req.user
       /\ resp.req.user = resp.req.tok.sub

\* C2 witness: a task was created from a body naming another user as owner.
C2_Witness ==
    /\ resp.req.op = "createTask" /\ resp.status = 201
    /\ resp.req.body.user \notin {0, resp.req.user}

\* C3: every task in a getTasks answer is owned by the caller, whatever the
\* query parameters; no list holds another user's task.
C3_ListIsOwn ==
    (resp.req.op = "getTasks" /\ resp.status = 200)
    => \A k \in 1..Len(resp.data.tasks) :
         /\ resp.data.tasks[k].user = resp.req.user
         /\ resp.req.user = resp.req.tok.sub

\* C3 witness: a user lists tasks, gets one, while another user's task that
\* matches the same query is stored.
C3_Witness ==
    /\ resp.req.op = "getTasks" /\ resp.status = 200
    /\ Len(resp.data.tasks) > 0
    /\ \E t \in tasks :
        /\ t.user # resp.req.user
        /\ Matches(t, [resp.req.body EXCEPT !.user = 0])

\* C9: a successful toggleTaskCompletion negates the completed flag of the
\* caller's task and changes no other task and no other field; toggles one
\* after the other return the flag to its original value every second time.
C9_ToggleNegates ==
    [][/\ \A i \in ReqIds :
            (/\ reqs[i].op = "toggleTaskCompletion"
             /\ Answered(i)
             /\ resp'.status = 200)
            => \E t \in tasks :
                /\ t.id = reqs[i].id
                /\ t.user = reqs[i].user
                /\ tasks' = (tasks \ {t}) \cup {[t EXCEPT !.completed = ~t.completed]}
                /\ resp'.data.task = {[t EXCEPT !.completed = ~t.completed]}
       /\ \A t \in tasks' : t.completed = flips'[t.id]]_vars

\* C9 witness: a toggle has put a task's flag back to the value it was
\* created with, next to a second task.
C9_Witness ==
    /\ resp.req.op = "toggleTaskCompletion" /\ resp.status = 200
    /\ \A t \in resp.data.task : ~t.completed
    /\ Cardinality(tasks) = 2

\* C4: a register whose email already has a user record when the controller
\* looks it up is answered 400 "User with this email already exists", and
\* the user records stay as they are.
C4_DuplicateEmailIs400 ==
    [][\A i \in ReqIds :
        (/\ Entering(i, {"register"})
         /\ Steps(i)
         /\ \E u \in users : u.email = reqs[i].body.email)
        => (/\ Answered(i)
            /\ resp'.status = 400
            /\ resp'.message = "User with this email already exists"
            /\ users' = users)]_vars

\* C4 witness: a second registration of a stored email was turned down.
C4_Witness ==
    /\ resp.req.op = "register" /\ resp.status = 400
    /\ resp.message = "User with this email already exists"
    /\ \E u \in users : u.email = resp.req.body.email

\* C5: whatever the interleaving of the findOne and the create of concurrent
\* registrations, no two user records have the same email.
C5_EmailsUnique ==
    \A u \in users : \A v \in users : u.email = v.email => u.id = v.id

\* C5 witness: two registrations of one email both passed the lookup, and
\* the create of the second was refused by the index.
C5_Witness ==
    /\ resp.req.op = "register" /\ resp.status = 500
    /\ \E u \in users : u.email = resp.req.body.email

Authenticated(r) ==
    /\ r.user # 0
    /\ r.tok.kind = "valid"
    /\ r.tok.sub = r.user
    /\ r.user \in issued

\* Every request on a private route that is past protect was authenticated.
C6_Ordered ==
    \A i \in ReqIds :
        (reqs[i].op \in ProtectedOps /\ ~At(i, "protect")) => Authenticated(reqs[i])

\* C6: on the task routes and on the profile and change-password routes
\* protect runs before every validation middleware and every controller;
\* when it turns a request down (no token, a bad or expired one, a user
\* missing or deactivated), the request ends there with 401, no controller
\* runs for it and nothing stored changes.
C6_ProtectFirst ==
    [][/\ C6_Ordered'
       /\ \A i \in ReqIds :
            (At(i, "protect") /\ Steps(i))
            => \/ /\ ~Answered(i)
                  /\ Authenticated(reqs'[i])
                  /\ \E d \in users : d.id = reqs'[i].user /\ d.isActive
               \/ /\ Answered(i)
                  /\ resp'.status = 401
                  /\ UNCHANGED <<users, tasks, issued, nextId>>]_vars

\* C6 witness: a deactivated user's valid token was turned away from a task
\* route while a task was stored.
C6_Witness ==
    /\ resp.status = 401
    /\ resp.req.op \in TaskOps
    /\ resp.req.tok.kind = "valid"
    /\ tasks # {}

\* C8: a createTask or updateTask whose dueDate is not after the clock when
\* validation runs is answered 400 and writes nothing; and whenever a task
\* is given a dueDate, that date is after the clock at the write.
C8_DueDateFuture ==
    [][/\ \A i \in ReqIds :
            ((At(i, "createTaskValidation") \/ At(i, "updateTaskValidation"))
             /\ Steps(i))
            => LET b == IF Answered(i) THEN resp'.req.body ELSE reqs'[i].body IN
               (b.dueDate.kind = "date" /\ b.dueDate.t <= now)
               => (Answered(i) /\ resp'.status = 400 /\ tasks' = tasks)
       /\ \A t \in tasks' :
            (\A u \in tasks : u.id = t.id => u.dueDate # t.dueDate)
            => \/ t.dueDate.kind = "undef"
               \/ t.dueDate.kind = "date" /\ t.dueDate.t > now']_vars

\* C8 witness: a due date equal to the clock was turned down after the clock
\* had moved.
C8_Witness ==
    /\ resp.req.op \in {"createTask", "updateTask"}
    /\ resp.status = 400
    /\ resp.message = "Validation failed"
    /\ now > 0
    /\ "dueDate" \in DOMAIN resp.req.body
    /\ resp.req.body.dueDate = DateAt(now)

\* The body a chain hands on, stated field by field: name, title,
\* description and search without their outer blanks, email in lower case,
\* every other field as it was sent.
C7_Sanitized(r) ==
    LET b == r.body
        strip(x) == IF x = Undef THEN Undef ELSE TrimRight(TrimLeft(x))
    IN [f \in DOMAIN b |->
          IF f \in {"name", "title", "description", "search"} THEN strip(b[f])
          ELSE IF f = "email" THEN ToLower(b[f])
          ELSE b[f]]

C7_Halts ==
    /\ vres.next = FALSE
    /\ vres.status = 400
    /\ vres.message = "Validation failed"
    /\ vres.errors = ChainOf(vreq).errors

\* C7 as stated: when a rule fails the response is 400 "Validation failed"
\* with every failure and next() is not called; when none fails the request
\* goes on to the controller exactly as it was sent.
C7_ProceedsUnmodified ==
    vres # NoBody =>
        IF ChainOf(vreq).errors # <<>> THEN C7_Halts
        ELSE vres.next = TRUE /\ vres.body = vreq.body

\* C7 amended: when a rule fails the response is 400 "Validation failed"
\* with every failure and next() is not called; when none fails the request
\* goes on to the controller with the chain's sanitizers applied (outer
\* blanks removed from name, title, description and search, the email in
\* canonical form) and every other field as it was sent.
C7_ProceedsSanitized ==
    vres # NoBody =>
        IF ChainOf(vreq).errors # <<>> THEN C7_Halts
        ELSE vres.next = TRUE /\ vres.body = C7_Sanitized(vreq)

\* C7 witness: a registration that passes every rule and reaches the
\* controller with a name and an email other than the ones sent.
C7_Witness ==
    /\ vres # NoBody
    /\ vreq.chain = "registerValidation"
    /\ vres.next = TRUE
    /\ vres.body.name # vreq.body.name
    /\ vres.body.email # vreq.body.email

C10_Min(a, b) == IF a <= b THEN a ELSE b

C10_Max(a, b) == IF a >= b THEN a ELSE b

\* The least k with k * l >= T.
C10_CeilDiv(T, l) == CHOOSE k \in 0..T : k * l >= T /\ (k - 1) * l < T

\* C10: a getTasks with page p >= 1 and limit l in 1..100, over T tasks
\* that match the caller's filter, answers with min(l, max(0, T - (p-1)*l))
\* tasks and pagination {current: p, pages: ceil(T/l), total: T, limit: l}.
C10_PageShape ==
    (/\ resp.req.op = "getTasks"
     /\ resp.status = 200
     /\ resp.req.body.page >= 1
     /\ resp.req.body.limit \in 1..LimitMax)
    => LET p == resp.req.body.page
           l == resp.req.body.limit
           T == Cardinality({t \in tasks : t.user = resp.req.user})
       IN /\ Len(resp.data.tasks) = C10_Min(l, C10_Max(0, T - (p - 1) * l))
          /\ resp.data.pagination =
                [current |-> p, pages |-> C10_CeilDiv(T, l),
                 total |-> T, limit |-> l]

\* C10 witness: page 2 with limit 10 over 15 tasks gives 5 tasks and 2 pages.
C10_Witness ==
    /\ resp.req.op = "getTasks" /\ resp.status = 200
    /\ resp.req.body.page = 2 /\ resp.req.body.limit = 10
    /\ resp.data.pagination.total = 15
    /\ Len(resp.data.tasks) = 5
    /\ resp.data.pagination.pages = 2

\* C11: for registration and for change-password a password passes
\* validation exactly when it has at least 6 characters and holds a
\* lowercase letter, an uppercase letter and a digit; any other password is
\* answered 400.
C11_AcceptedIffStrong ==
    (vres # NoBody
     /\ vreq.chain \in {"registerValidation", "changePasswordValidation"})
    => LET field == IF vreq.chain = "registerValidation"
                    THEN "password" ELSE "newPassword"
           pw == IF vreq.body[field] = Undef THEN <<>> ELSE vreq.body[field]
           strong == /\ Len(pw) >= 6
                     /\ \E i \in 1..Len(pw) : pw[i] \in {"a", "b"}
                     /\ \E i \in 1..Len(pw) : pw[i] \in {"A", "B"}
                     /\ \E i \in 1..Len(pw) : pw[i] = "1"
           refused == \E k \in 1..Len(vres.errors) : vres.errors[k].path = field
       IN /\ strong <=> ~refused
          /\ ~strong => vres.status = 400

\* Request i is about to call generateToken: a register whose create goes
\* through, or a login whose user is found and whose password matches.
C12_ReachesSigning(i) ==
    \/ /\ At(i, "register") /\ reqs[i].step = 1
       /\ \A u \in users : u.email # reqs[i].body.email
    \/ /\ At(i, "login")
       /\ \E u \in users :
            /\ u.email = reqs[i].body.email
            /\ u.isActive
            /\ u.password = Hash(reqs[i].body.password)

\* C12: without JWT_SECRET every register or login that reaches the
\* signing of a token is answered 500, and no response carries a token.
C12_NoSecretIs500 ==
    [][~jwtSecret =>
        /\ resp'.data.token = FALSE
        /\ \A i \in ReqIds :
            (Steps(i) /\ C12_ReachesSigning(i))
            => (Answered(i) /\ resp'.status = 500)]_vars

\* C12 witness: a login with good credentials failed for want of a secret.
C12_Witness ==
    /\ ~jwtSecret
    /\ resp.req.op = "login"
    /\ resp.status = 500

\* C14: a register answered with anything but 201 leaves the user records
\* as they were before it.
C14_FailedRegisterKeepsUsers ==
    [][\A i \in ReqIds :
        (reqs[i].op = "register" /\ Answered(i) /\ resp'.status # 201)
        => users' = users]_vars

\* C13: in every task controller a fault of a persistence call is caught by
\* the controller itself, which answers 500 with its own generic message;
\* no fault leaves the controller.
C13_FaultsCaught ==
    [][\A i \in ReqIds :
        (\/ PersistenceFault(i)
         \/ CreateTaskPopulateFault(i)
         \/ TogglePopulateFault(i)
         \/ GetTasksFault(i))
        => /\ Answered(i)
           /\ resp'.status = 500
           /\ \E op \in DOMAIN CatchMessage : resp'.message = CatchMessage[op]]_vars

\* C15: once k toggles of one task have all succeeded, however their
\* findOne and save steps were interleaved, the task's completed flag is
\* its original value negated k times.
C15_ToggleParity ==
    InFlight = {} => \A t \in tasks : t.completed = flips[t.id]

\* C16: in the prototype's array, after any sequence of create, update,
\* toggle and delete requests, the stored tasks have pairwise distinct ids,
\* and no stored task has an id that a delete freed earlier.
C16_IdsDistinctNeverReused ==
    /\ \A j \in 1..Len(memTasks) : \A k \in 1..Len(memTasks) :
         j # k => memTasks[j].id # memTasks[k].id
    /\ \A k \in 1..Len(memTasks) : memTasks[k].id \notin freed

\* C16 witness: the array is full again after deletes, the counter has
\* reached two digits, and a stored task was updated and toggled.
C16_Witness ==
    /\ Len(memTasks) = MaxMemTasks
    /\ Cardinality(freed) >= 2
    /\ \E k \in 1..Len(memTasks) : Len(memTasks[k].id) = 2
    /\ \E k \in 1..Len(memTasks) :
         memTasks[k].title = <<"b">> /\ memTasks[k].completed

====
